---- MODULE Spec2Model ----
(***************************************************************************)
(* A model of src/ir-normalization/normalizer.py: the linear normalizer,   *)
(* the filename-based scaling policy, the per-file worker process_file and *)
(* the batch run of main over a multiprocessing pool.                      *)
(*                                                                         *)
(* A path or file name is a sequence of characters; the suffix 16BIT.PNG   *)
(* (which holds neither "_" nor "/") is kept as one element.  A Python     *)
(* call that may raise returns a record whose field exc names the          *)
(* exception ("none" when it returns normally).                            *)
(***************************************************************************)
EXTENDS Integers, Sequences, FiniteSets, TLC

\* ------------------------------------------------------------------ bounds
MaxFiles   == 2    \* entries of the input directory
MaxCores   == 3    \* cpu_count() ranges over 1..MaxCores
MaxNameLen == 4    \* characters of a file name handed to the resolver alone
MaxPixels  == 2    \* samples of a grid handed to the normalizer alone

\* ------------------------------------------------------- program constants
ReportEvery == 1000     \* index % 1000 == 0
Max8        == 255      \* floor(scaled_image * 255)
Max16       == 65535    \* floor(scaled_image * 65535)
Uint16Mod   == 65536    \* arithmetic of a numpy uint16 array wraps modulo 2^16

\* an optional argument: None, or a one-element sequence holding its value
None == <<>>
Some(x) == <<x>>

\* --------------------------------------------------------------- sequences
RECURSIVE SeqsUpTo(_, _)
\* every sequence over S of length at most n
SeqsUpTo(S, n) ==
    IF n = 0 THEN {<<>>}
    ELSE LET shorter == SeqsUpTo(S, n - 1)
         IN  shorter \cup {Append(q, x) : q \in {r \in shorter : Len(r) = n - 1}, x \in S}

\* F applied to the value of e.  TLC evaluates a LET definition anew at each of
\* its uses when it computes ENABLED; a bound variable holds a value.
Bind(e, F(_)) == CHOOSE y \in {F(x) : x \in {e}} : TRUE

RECURSIVE SeqMin(_)
SeqMin(s) ==
    IF Len(s) = 1 THEN s[1]
    ELSE LET m == SeqMin(Tail(s)) IN IF s[1] < m THEN s[1] ELSE m

RECURSIVE SeqMax(_)
SeqMax(s) ==
    IF Len(s) = 1 THEN s[1]
    ELSE LET m == SeqMax(Tail(s)) IN IF s[1] > m THEN s[1] ELSE m

\* ------------------------------------------------------- linear normalizer
\* A float is [k |-> "fin", n, d] (the quotient n/d, d > 0), or an infinity or
\* a NaN.  For 0 <= n <= d <= 65535 and m in {255, 65535} the IEEE double
\* floor((n/d)*m) equals the exact floor of n*m/d, so the quotient is kept exact.
Fin(n, d) == [k |-> "fin", n |-> n, d |-> d]
NaN  == [k |-> "nan",  n |-> 0, d |-> 1]
PInf == [k |-> "pinf", n |-> 0, d |-> 1]
NInf == [k |-> "ninf", n |-> 0, d |-> 1]

\* image_array - bottom (line 32): a uint16 array minus an integer that fits
\* uint16 stays uint16 and wraps; an int32 array (Pillow's mode I) does not.
Subtract(v, bottom, dtype) ==
    IF dtype = "uint16" THEN (v - bottom) % Uint16Mod ELSE v - bottom

\* ... / (top - bottom) (line 32): numpy's true division; a zero divisor gives
\* an infinity or a NaN (with a RuntimeWarning), never an exception.
TrueDivide(n, d) ==
    IF d = 0 THEN (IF n > 0 THEN PInf ELSE IF n < 0 THEN NInf ELSE NaN)
    ELSE IF d < 0 THEN Fin(0 - n, 0 - d)
    ELSE Fin(n, d)

\* scaled_image[scaled_image < 0] = 0 (line 33); NaN < 0 is false
ClipLow(s) ==
    IF s.k = "ninf" \/ (s.k = "fin" /\ s.n < 0) THEN Fin(0, 1) ELSE s

\* scaled_image[scaled_image > 1] = 1 (line 34); NaN > 1 is false
ClipHigh(s) ==
    IF s.k = "pinf" \/ (s.k = "fin" /\ s.n > s.d) THEN Fin(1, 1) ELSE s

\* floor(n * m / d) for 0 <= n, 0 < d, m < 2^16, computed in two halves of m so
\* that no intermediate product leaves 32 bits
MulDivFloor(n, m, d) ==
    LET mh == m \div 256
        ml == m % 256
        qa == (n * mh) \div d
        ra == (n * mh) % d
    IN  qa * 256 + (ra * 256 + n * ml) \div d

FloorScale256(s, maxv) ==
    IF s.k = "nan" THEN NaN ELSE Fin(MulDivFloor(s.n, maxv + 1, s.d), 1)

\* np.floor(scaled_image * maxv) (lines 37, 39)
FloorScale(s, maxv) ==
    IF s.k = "nan" THEN NaN ELSE Fin(MulDivFloor(s.n, maxv, s.d), 1)

\* what .astype(np.uint8 / np.uint16) may give for a NaN: the cast is undefined
NanCasts(maxv) == {0, (maxv + 1) \div 2, maxv}

\* .astype(...) (lines 37, 39): exact for a value in range, the low bits otherwise
AsType(x, maxv, nancast) ==
    IF x.k = "nan" THEN nancast ELSE x.n % (maxv + 1)

MaxOut(bit_8) == IF bit_8 THEN Max8 ELSE Max16

\* lines 27-30: an omitted bound is the grid's min / max
BottomOf(image_array, bottom) == IF bottom = None THEN SeqMin(image_array) ELSE bottom[1]
TopOf(image_array, top) == IF top = None THEN SeqMax(image_array) ELSE top[1]

\* one sample through lines 32-39
NormSample(v, dtype, bit_8, bottom, top, nancast) ==
    Bind(TrueDivide(Subtract(v, bottom, dtype), top - bottom), LAMBDA scaled :
    Bind(ClipLow(scaled), LAMBDA low :
    Bind(ClipHigh(low), LAMBDA clipped :
    Bind(FloorScale(clipped, MaxOut(bit_8)), LAMBDA floored :
         AsType(floored, MaxOut(bit_8), nancast)))))

\* lin_normalize_image (lines 17-41) on a grid given as the sequence of its
\* samples; it has no raise statement and numpy raises none here
lin_normalize_image(image_array, dtype, bit_8, bottom, top, nancast) ==
    Bind(BottomOf(image_array, bottom), LAMBDA b :
    Bind(TopOf(image_array, top), LAMBDA t :
         [exc |-> "none",
          val |-> [i \in 1..Len(image_array) |->
                     NormSample(image_array[i], dtype, bit_8, b, t, nancast)]]))

\* ------------------------------------------------- scaling-policy resolver
RECURSIVE LastSlash(_, _)
\* the position of the last "/" among the first i characters, or 0
LastSlash(path, i) ==
    IF i = 0 THEN 0
    ELSE IF path[i] = "/" THEN i
    ELSE LastSlash(path, i - 1)

basenameOff(path) == path
\* os.path.basename (line 108): what follows the last "/"
basename(path) == SubSeq(path, LastSlash(path, Len(path)) + 1, Len(path))

RECURSIVE SplitFrom(_, _, _, _)
SplitFrom(s, i, cur, acc) ==
    IF i > Len(s) THEN Append(acc, cur)
    ELSE IF s[i] = "_" THEN SplitFrom(s, i + 1, <<>>, Append(acc, cur))
    ELSE SplitFrom(s, i + 1, Append(cur, s[i]), acc)

\* str.split('_') (line 108): the empty string splits into one empty token
split(s) == SplitFrom(s, 1, <<>>, <<>>)

RECURSIVE ForTokens(_, _)
\* the for/else of lines 110-115: the first token equal to 'P', 'C' or 'S'
\* is bound to camera_pos; the else branch only prints and binds nothing
ForTokens(tokens, i) ==
    IF i > Len(tokens) THEN [bound |-> FALSE, camera_pos |-> "", warned |-> TRUE]
    ELSE IF tokens[i] = <<"P">> \/ tokens[i] = <<"C">> \/ tokens[i] = <<"S">>
         THEN [bound |-> TRUE, camera_pos |-> tokens[i][1], warned |-> FALSE]
    ELSE ForTokens(tokens, i + 1)

\* parse_filename (lines 101-117): return camera_pos raises UnboundLocalError
\* when the loop bound nothing
parse_filename(filename) ==
    Bind(split(basename(filename)), LAMBDA tokens :
    Bind(ForTokens(tokens, 1), LAMBDA r :
         IF r.bound
         THEN [exc |-> "none", val |-> r.camera_pos, warned |-> FALSE]
         ELSE [exc |-> "UnboundLocalError", val |-> "", warned |-> TRUE]))

Bounds(bottom, top, warned) ==
    [exc |-> "none", bottom |-> bottom, top |-> top, warned |-> warned]

\* get_scaling_values (lines 120-148): the defaults of lines 132-133 stand
\* unless a branch of lines 135-146 overrides them
get_scaling_values(filename, num_rows) ==
    Bind(parse_filename(filename), LAMBDA p :
         IF p.exc # "none"
         THEN [exc |-> p.exc, bottom |-> 0, top |-> 0, warned |-> p.warned]
         ELSE IF p.val = "P"
              THEN IF num_rows = 512 THEN Bounds(53500, 56500, FALSE)
                   ELSE IF num_rows = 480 THEN Bounds(50500, 58500, FALSE)
                   ELSE Bounds(51000, 57500, TRUE)
         ELSE IF p.val = "C" THEN Bounds(50500, 58500, FALSE)
         ELSE Bounds(51000, 57500, FALSE))

\* ---------------------------------------------------------- per-file worker
\* A file of the input directory: its name, whether Image.open can decode it,
\* the grid it decodes to (row count, sample type, samples), and whether its
\* output path can be written.
Suffix == "16BIT.PNG"

\* Image.open + np.array (line 168)
ImageOpen(file) ==
    IF file.readable
    THEN [exc |-> "none", rows |-> file.rows, dtype |-> file.dtype, data |-> file.pixels]
    ELSE [exc |-> "OSError", rows |-> 0, dtype |-> "", data |-> <<>>]

\* save_im.save / writer.write (lines 172-184)
Save(file, normalized) ==
    IF file.writable THEN [exc |-> "none", saved |-> normalized]
    ELSE [exc |-> "OSError", saved |-> <<>>]

Returned(v, saved) == [exc |-> "none", val |-> v, saved |-> saved]
Raised(e) == [exc |-> e, val |-> FALSE, saved |-> <<>>]

\* the try block of process_file (lines 168-185)
TryBlock(in_file, file, bit_8, nancast) ==
    Bind(ImageOpen(file), LAMBDA cur_data :
      IF cur_data.exc # "none" THEN Raised(cur_data.exc)
      ELSE
    Bind(get_scaling_values(in_file, cur_data.rows), LAMBDA sv :
      IF sv.exc # "none" THEN Raised(sv.exc)
      ELSE
    Bind(lin_normalize_image(cur_data.data, cur_data.dtype, bit_8,
                             Some(sv.bottom), Some(sv.top), nancast), LAMBDA normalized :
    Bind(Save(file, normalized.val), LAMBDA out :
      IF out.exc # "none" THEN Raised(out.exc)
      ELSE Returned(TRUE, out.saved)))))

NoExcept(r) == r
\* except Exception (lines 186-189): print, return False
Except(r) == IF r.exc # "none" THEN Returned(FALSE, <<>>) ELSE r

\* process_file from its try statement on (lines 167-189)
process_file(in_file, file, bit_8, nancast) ==
    Bind(TryBlock(in_file, file, bit_8, nancast), LAMBDA r : Except(r))

\* ------------------------------------------------------- batch coordinator
\* x.find('16BIT.PNG') != -1 (line 89)
Matches(name) == \E i \in 1..Len(name) : name[i] = Suffix

\* x.replace('16BIT', '8BIT-N') / x.replace('16BIT.', '16BIT-N.') (lines 90-93)
Renamed(name, bit_8) ==
    [i \in 1..Len(name) |->
        IF name[i] = Suffix THEN (IF bit_8 THEN "8BIT-N.PNG" ELSE "16BIT-N.PNG")
        ELSE name[i]]

\* os.path.join (lines 95-96)
join(dir, name) == dir \o <<"/">> \o name

\* the directory entries that curate_files keeps (line 89), in listing order
Matching(listing) == SelectSeq(listing, LAMBDA f : Matches(f.name))

\* curate_files (lines 77-98)
curate_files(listing, input_directory, output_directory, bit_8) ==
    LET kept == Matching(listing)
    IN  [input_files  |-> [i \in 1..Len(kept) |-> join(input_directory, kept[i].name)],
         output_files |-> [i \in 1..Len(kept) |->
                             join(output_directory, Renamed(kept[i].name, bit_8))]]

pool_size_unguarded(cpus) == cpus - 1
\* cpu_count() - 1 or 1 (line 210)
pool_size(cpus) == IF cpus - 1 # 0 THEN cpus - 1 ELSE 1

\* the argument list of starmap (lines 213-214): enumerate is 0-based
Tasks(input_files, output_files) ==
    [i \in 1..Len(input_files) |->
        [in_file |-> input_files[i], output_file |-> output_files[i], index |-> i - 1]]

NoTask == [in_file |-> <<>>, output_file |-> <<>>, index |-> -1]
Pending == [set |-> FALSE, val |-> FALSE]
NoReturn == Returned(FALSE, <<>>)
NoCall == [fn |-> "none", done |-> FALSE]

RECURSIVE CountTrue(_, _)
\* sum(1 for x in results if x) (line 217) over the first n results
CountTrue(res, n) ==
    IF n = 0 THEN 0
    ELSE CountTrue(res, n - 1) + (IF res[n - 1].val THEN 1 ELSE 0)

\* -------------------------------------------------------------------- state
VARIABLES
    all_files,      \* os.listdir(input_directory): a sequence of files
    cpus,           \* cpu_count()
    bit_8,          \* --bit8
    mainpc,         \* where main is: "start", "starmap", "done" or "raised"
    input_files,    \* curate_files' input paths
    output_files,   \* curate_files' output paths
    taskqueue,      \* the pool's queue of tasks not yet taken by a worker
    results,        \* starmap's result list, by index
    wpc,            \* each pool worker's position
    wtask,          \* the task each worker holds
    cur_time,       \* process_file's local cur_time, per worker
    time_diff,      \* process_file's local time_diff, per worker
    ret,            \* what process_file gave, per worker, before it is sent back
    clock,          \* time.time(): a logical clock, one tick per reading
    prev_time,      \* the manager's shared Value
    prev_time_lock, \* the manager's Lock: 0 when free, else the holding worker
    processed,      \* by index, the workers that ran process_file on the task
    outputs,        \* by index, the samples saved to the output path
    total,          \* the count printed by line 201, -1 before
    succeeded,      \* the count printed by line 217, -1 before
    call            \* the last call of a function taken alone

vars == <<all_files, cpus, bit_8, mainpc, input_files, output_files, taskqueue,
          results, wpc, wtask, cur_time, time_diff, ret, clock, prev_time,
          prev_time_lock, processed, outputs, total, succeeded, call>>

inputs  == <<all_files, cpus, bit_8>>

InputDirectory  == <<"S", "_", "i", "n">>
OutputDirectory == <<"o", "u", "t">>

\* the files a directory is drawn from.  A 16-bit grayscale PNG decodes to a
\* uint16 array (Pillow's mode I;16) or to an int32 array (mode I), by the
\* Pillow release.
Kinds == {"good", "corrupt", "notoken", "unwritable", "other"}

File(kind, i) ==
    LET id == ToString(i)
    IN  CASE kind = "good" ->
               [name |-> <<id, "_", "P", "_", Suffix>>, readable |-> TRUE, rows |-> 512,
                dtype |-> "uint16", pixels |-> <<53500, 55000, 56500>>, writable |-> TRUE]
          [] kind = "corrupt" ->
               [name |-> <<id, "_", "C", "_", Suffix>>, readable |-> FALSE, rows |-> 480,
                dtype |-> "uint16", pixels |-> <<54500>>, writable |-> TRUE]
          [] kind = "notoken" ->
               [name |-> <<id, "_", "Y", "_", Suffix>>, readable |-> TRUE, rows |-> 480,
                dtype |-> "int32", pixels |-> <<51000, 57500>>, writable |-> TRUE]
          [] kind = "unwritable" ->
               [name |-> <<id, "_", "S", "_", Suffix>>, readable |-> TRUE, rows |-> 512,
                dtype |-> "int32", pixels |-> <<54250>>, writable |-> FALSE]
          [] OTHER ->
               [name |-> <<id, "_", "P", "_", "8BIT.PNG">>, readable |-> TRUE, rows |-> 512,
                dtype |-> "uint16", pixels |-> <<53500>>, writable |-> TRUE]

Listings ==
    {[i \in 1..Len(ks) |-> File(ks[i], i)] : ks \in SeqsUpTo(Kinds, MaxFiles)}

\* the file behind the task of a given index
InputFile(index) == Matching(all_files)[index + 1]

Workers == DOMAIN wpc

Init ==
    /\ all_files \in Listings
    /\ cpus \in 1..MaxCores
    /\ bit_8 \in BOOLEAN
    /\ mainpc = "start"
    /\ input_files = <<>>
    /\ output_files = <<>>
    /\ taskqueue = <<>>
    /\ results = <<>>
    /\ wpc = <<>>
    /\ wtask = <<>>
    /\ cur_time = <<>>
    /\ time_diff = <<>>
    /\ ret = <<>>
    /\ clock = 0
    /\ prev_time = 0
    /\ prev_time_lock = 0
    /\ processed = <<>>
    /\ outputs = <<>>
    /\ total = -1
    /\ succeeded = -1
    /\ call = NoCall

\* main up to the call of starmap (lines 200-215): the file lists, the manager's
\* Value and Lock, the pool and its task queue
Submit ==
    /\ mainpc = "start"
    /\ LET lists == curate_files(all_files, InputDirectory, OutputDirectory, bit_8)
           n == Len(lists.input_files)
           num_workers == pool_size(cpus)
       IN  /\ input_files' = lists.input_files
           /\ output_files' = lists.output_files
           /\ taskqueue' = Tasks(lists.input_files, lists.output_files)
           /\ results' = [i \in 0..(n - 1) |-> Pending]
           /\ processed' = [i \in 0..(n - 1) |-> <<>>]
           /\ outputs' = [i \in 0..(n - 1) |-> <<>>]
           /\ total' = n
           /\ wpc' = [w \in 1..num_workers |-> "idle"]
           /\ wtask' = [w \in 1..num_workers |-> NoTask]
           /\ cur_time' = [w \in 1..num_workers |-> 0]
           /\ time_diff' = [w \in 1..num_workers |-> 0]
           /\ ret' = [w \in 1..num_workers |-> NoReturn]
    /\ prev_time' = clock
    /\ clock' = clock + 1
    /\ prev_time_lock' = 0
    /\ mainpc' = "starmap"
    /\ UNCHANGED <<inputs, succeeded, call>>

GetKeep(queue) == queue
\* a worker's get from the task queue removes the task it returns
Get(queue) == Tail(queue)

\* a pool worker takes the next task (chunksize=1) and calls process_file
Dispatch(w) ==
    /\ mainpc = "starmap"
    /\ wpc[w] = "idle"
    /\ taskqueue # <<>>
    /\ wtask' = [wtask EXCEPT ![w] = Head(taskqueue)]
    /\ taskqueue' = Get(taskqueue)
    /\ wpc' = [wpc EXCEPT ![w] = "call"]
    /\ UNCHANGED <<inputs, clock, mainpc, input_files, output_files, results, cur_time,
                   time_diff, ret, prev_time, prev_time_lock, processed, outputs,
                   total, succeeded, call>>

\* lines 157-163: on every 1000th index, read the clock and the shared Value
\* (no lock is held here) and print the progress line
ReadTime(w) ==
    /\ wpc[w] = "call"
    /\ wtask[w].index % ReportEvery = 0
    /\ cur_time' = [cur_time EXCEPT ![w] = clock]
    /\ time_diff' = [time_diff EXCEPT ![w] = clock - prev_time]
    /\ clock' = clock + 1
    /\ wpc' = [wpc EXCEPT ![w] = "acquire"]
    /\ UNCHANGED <<inputs, mainpc, input_files, output_files, taskqueue, results,
                   wtask, ret, prev_time, prev_time_lock, processed, outputs,
                   total, succeeded, call>>

\* with prev_time_lock (line 164): entry
Acquire(w) ==
    /\ wpc[w] = "acquire"
    /\ prev_time_lock = 0
    /\ prev_time_lock' = w
    /\ wpc' = [wpc EXCEPT ![w] = "write"]
    /\ UNCHANGED <<inputs, clock, mainpc, input_files, output_files, taskqueue, results,
                   wtask, cur_time, time_diff, ret, prev_time, processed, outputs,
                   total, succeeded, call>>

\* prev_time.value = cur_time (line 165)
WriteTime(w) ==
    /\ wpc[w] = "write"
    /\ prev_time' = cur_time[w]
    /\ wpc' = [wpc EXCEPT ![w] = "release"]
    /\ UNCHANGED <<inputs, clock, mainpc, input_files, output_files, taskqueue, results,
                   wtask, cur_time, time_diff, ret, prev_time_lock, processed, outputs,
                   total, succeeded, call>>

\* with prev_time_lock (line 164): exit
Release(w) ==
    /\ wpc[w] = "release"
    /\ prev_time_lock' = 0
    /\ wpc' = [wpc EXCEPT ![w] = "try"]
    /\ UNCHANGED <<inputs, clock, mainpc, input_files, output_files, taskqueue, results,
                   wtask, cur_time, time_diff, ret, prev_time, processed, outputs,
                   total, succeeded, call>>

\* lines 167-189: load, resolve, normalize, save, under the except clause
Body(w) ==
    /\ \/ wpc[w] = "try"
       \/ wpc[w] = "call" /\ wtask[w].index % ReportEvery # 0
    /\ \E nancast \in NanCasts(MaxOut(bit_8)), file \in {InputFile(wtask[w].index)} :
         \E r \in {process_file(wtask[w].in_file, file, bit_8, nancast)} :
            /\ ret' = [ret EXCEPT ![w] = r]
            /\ outputs' = [outputs EXCEPT ![wtask[w].index] =
                              IF r.exc = "none" /\ r.val THEN r.saved ELSE @]
            /\ processed' = [processed EXCEPT ![wtask[w].index] = Append(@, w)]
    /\ wpc' = [wpc EXCEPT ![w] = "return"]
    /\ UNCHANGED <<inputs, clock, mainpc, input_files, output_files, taskqueue, results,
                   wtask, cur_time, time_diff, prev_time, prev_time_lock,
                   total, succeeded, call>>

\* process_file is left and the worker sends the task's outcome back: a value
\* fills the task's slot of the result list; an exception makes starmap raise
\* it in main, and leaving the with block terminates the pool.  The call's
\* locals are gone.
Return(w) ==
    /\ wpc[w] = "return"
    /\ IF ret[w].exc = "none"
       THEN /\ results' = [results EXCEPT ![wtask[w].index] =
                              [set |-> TRUE, val |-> ret[w].val]]
            /\ wpc' = [wpc EXCEPT ![w] = "idle"]
            /\ UNCHANGED <<mainpc, taskqueue>>
       ELSE /\ mainpc' = "raised"
            /\ taskqueue' = <<>>
            /\ wpc' = [v \in DOMAIN wpc |-> "terminated"]
            /\ UNCHANGED results
    /\ wtask' = [wtask EXCEPT ![w] = NoTask]
    /\ cur_time' = [cur_time EXCEPT ![w] = 0]
    /\ time_diff' = [time_diff EXCEPT ![w] = 0]
    /\ ret' = [ret EXCEPT ![w] = NoReturn]
    /\ UNCHANGED <<inputs, clock, input_files, output_files, prev_time, prev_time_lock,
                   processed, outputs, total, succeeded, call>>

\* starmap returns once every task has reported
AllReported(res) == \A i \in DOMAIN res : res[i].set

\* starmap returns, the pool is left, the summary is printed (lines 212-217)
Finish ==
    /\ mainpc = "starmap"
    /\ AllReported(results)
    /\ succeeded' = CountTrue(results, Len(input_files))
    /\ wpc' = [v \in DOMAIN wpc |-> "terminated"]
    /\ mainpc' = "done"
    /\ UNCHANGED <<inputs, clock, input_files, output_files, taskqueue, results, wtask,
                   cur_time, time_diff, ret, prev_time, prev_time_lock, processed,
                   outputs, total, call>>

Next ==
    \/ Submit
    \/ Finish
    \/ \E w \in Workers : Dispatch(w)
    \/ \E w \in Workers : ReadTime(w)
    \/ \E w \in Workers : Acquire(w)
    \/ \E w \in Workers : WriteTime(w)
    \/ \E w \in Workers : Release(w)
    \/ \E w \in Workers : Body(w)
    \/ \E w \in Workers : Return(w)

Spec == Init /\ [][Next]_vars

\* the operating system keeps scheduling main and the workers: while some
\* process can take a step, a step is eventually taken
FairSpec ==
    /\ Spec
    /\ WF_vars(Next)

\* ------------------------------------------- the two pure functions, alone
Chars     == {"/", "_", "P", "C", "S", "X"}
RowCounts == {480, 500, 512}
Samples   == {0, 53499, 53500, 55000, 56500, 56501, 65535}
Dtypes    == {"uint16", "int32"}
BottomArgs == {None, Some(50500), Some(53500), Some(56500)}
TopArgs    == {None, Some(53500), Some(56500), Some(58500)}
Grids      == SeqsUpTo(Samples, MaxPixels) \ {<<>>}

\* the calls taken alone: lin_normalize_image with bottom <= top (section 3 of
\* the design: bounds lie in the 16-bit range, equal bounds are the degenerate
\* case), and get_scaling_values
NormalizeCalls ==
    {[fn |-> "lin_normalize_image", image_array |-> g, dtype |-> dt, bit_8 |-> b8,
      bottom |-> b, top |-> t, done |-> FALSE, result |-> [exc |-> "pending"]] :
        g \in Grids, dt \in Dtypes, b8 \in BOOLEAN, b \in BottomArgs, t \in TopArgs}

ResolveCalls ==
    {[fn |-> "get_scaling_values", filename |-> f, num_rows |-> r,
      done |-> FALSE, result |-> [exc |-> "pending"]] :
        f \in SeqsUpTo(Chars, MaxNameLen), r \in RowCounts}

InitPure ==
    /\ all_files = <<>>
    /\ cpus = 1
    /\ bit_8 = FALSE
    /\ mainpc = "start"
    /\ input_files = <<>>
    /\ output_files = <<>>
    /\ taskqueue = <<>>
    /\ results = <<>>
    /\ wpc = <<>>
    /\ wtask = <<>>
    /\ cur_time = <<>>
    /\ time_diff = <<>>
    /\ ret = <<>>
    /\ clock = 0
    /\ prev_time = 0
    /\ prev_time_lock = 0
    /\ processed = <<>>
    /\ outputs = <<>>
    /\ total = -1
    /\ succeeded = -1
    /\ \/ /\ call \in NormalizeCalls
          /\ BottomOf(call.image_array, call.bottom) <= TopOf(call.image_array, call.top)
       \/ call \in ResolveCalls

batch == <<all_files, cpus, bit_8, mainpc, input_files, output_files, taskqueue,
           results, wpc, wtask, cur_time, time_diff, ret, clock, prev_time,
           prev_time_lock, processed, outputs, total, succeeded>>

\* the pending call of lin_normalize_image is made
CallNormalize ==
    /\ call.fn = "lin_normalize_image"
    /\ ~call.done
    /\ \E nancast \in NanCasts(MaxOut(call.bit_8)) :
         call' = [call EXCEPT
                    !.done = TRUE,
                    !.result = lin_normalize_image(call.image_array, call.dtype, call.bit_8,
                                                   call.bottom, call.top, nancast)]
    /\ UNCHANGED batch

\* the pending call of get_scaling_values is made
CallResolve ==
    /\ call.fn = "get_scaling_values"
    /\ ~call.done
    /\ call' = [call EXCEPT
                  !.done = TRUE,
                  !.result = get_scaling_values(call.filename, call.num_rows)]
    /\ UNCHANGED batch

NextPure == CallNormalize \/ CallResolve

SpecPure == InitPure /\ [][NextPure]_vars

\* -------------------------------------------------------------- properties
\* position i of the path holds a one-letter camera token of its basename
IsCameraAt(path, i) ==
    /\ path[i] \in {"P", "C", "S"}
    /\ i = 1 \/ path[i - 1] \in {"_", "/"}
    /\ i = Len(path) \/ path[i + 1] = "_"
    /\ \A j \in (i + 1)..Len(path) : path[j] # "/"

HasCamera(path) == \E i \in 1..Len(path) : IsCameraAt(path, i)

FirstCamera(path) ==
    path[CHOOSE i \in 1..Len(path) :
            IsCameraAt(path, i) /\ \A j \in 1..(i - 1) : ~IsCameraAt(path, j)]

\* the table of section 4.1
Table(camera, num_rows) ==
    CASE camera = "P" /\ num_rows = 512 -> <<53500, 56500>>
      [] camera = "P" /\ num_rows = 480 -> <<50500, 58500>>
      [] camera = "C" -> <<50500, 58500>>
      [] OTHER -> <<51000, 57500>>

Done == mainpc = "done"
NumTasks == Len(Matching(all_files))
IsNormalize == call.fn = "lin_normalize_image" /\ call.done
IsResolve == call.fn = "get_scaling_values" /\ call.done
CallBottom == BottomOf(call.image_array, call.bottom)
CallTop == TopOf(call.image_array, call.top)

\* C1: an error raised while process_file handles a file (an unreadable or
\* undecodable input, a resolver failure, an unwritable output) is caught in
\* process_file, which returns False: no worker ever holds an exception to send
\* back, main never sees one raised, and the batch ends with a result for
\* every task.
C1_ErrorsContained ==
    /\ mainpc # "raised"
    /\ \A w \in Workers :
         wpc[w] = "return" =>
           /\ ret[w].exc = "none"
           /\ LET f == InputFile(wtask[w].index)
              IN  (~f.readable \/ ~f.writable) => ret[w].val = FALSE
    /\ Done => \A i \in 0..(NumTasks - 1) : results[i].set

\* a finished batch in which one task failed on an unreadable file and another
\* task succeeded
C1_Witness ==
    /\ Done
    /\ \E i, j \in DOMAIN results :
         /\ ~InputFile(i).readable /\ results[i].set /\ ~results[i].val
         /\ results[j].set /\ results[j].val

\* C2: at the end of a batch the reported total is the number of matching
\* files, the reported succeeded count is the number of True results, and with
\* k unreadable inputs (and every output writable) succeeded = total - k.
C2_Summary ==
    Done =>
      LET n == Cardinality({i \in 1..Len(all_files) : Matches(all_files[i].name)})
          k == Cardinality({i \in 0..(NumTasks - 1) : ~InputFile(i).readable})
      IN  /\ total = n
          /\ total = Len(input_files)
          /\ succeeded = Cardinality({i \in DOMAIN results : results[i].val})
          /\ (\A i \in 0..(NumTasks - 1) : InputFile(i).writable) => succeeded = n - k

\* C3: every task built by the coordinator is (input path, output path, index)
\* of one matching file; it is run at most once at any time, by one worker, no
\* two workers hold the same task, and at the end each task was run exactly once.
C3_ExactlyOnce ==
    /\ \A i \in DOMAIN processed : Len(processed[i]) <= 1
    /\ \A w, v \in Workers :
         (w # v /\ wtask[w] # NoTask) => wtask[w].index # wtask[v].index
    /\ \A w \in Workers :
         wtask[w] # NoTask =>
           /\ wtask[w].index \in 0..(NumTasks - 1)
           /\ wtask[w].in_file = input_files[wtask[w].index + 1]
           /\ wtask[w].output_file = output_files[wtask[w].index + 1]
           /\ wtask[w].in_file = join(InputDirectory, InputFile(wtask[w].index).name)
    /\ Done => \A i \in 0..(NumTasks - 1) : Len(processed[i]) = 1

\* a finished batch whose two tasks were run by two different workers
C3_Witness ==
    /\ Done
    /\ \E i, j \in DOMAIN processed :
         /\ i # j
         /\ Len(processed[i]) = 1 /\ Len(processed[j]) = 1
         /\ processed[i][1] # processed[j][1]

\* C4: for a readable, writable file whose basename holds no P, C or S token
\* the resolver returns the default bounds (51000, 57500) with a warning, and
\* the task's result is True.
C4_NoTokenSucceeds ==
    \A i \in DOMAIN results :
      LET f == InputFile(i)
          p == input_files[i + 1]
      IN  (results[i].set /\ ~HasCamera(p) /\ f.readable /\ f.writable) =>
            /\ get_scaling_values(p, f.rows).exc = "none"
            /\ get_scaling_values(p, f.rows).bottom = 51000
            /\ get_scaling_values(p, f.rows).top = 57500
            /\ get_scaling_values(p, f.rows).warned
            /\ results[i].val

\* C5: with bottom < top, for either bit depth and either sample type of the
\* input grid, a sample below bottom maps to 0 and a sample above top maps to
\* 2^bitdepth - 1.
C5_Clipping ==
    (IsNormalize /\ CallBottom < CallTop) =>
      \A i \in 1..Len(call.image_array) :
        /\ call.image_array[i] < CallBottom => call.result.val[i] = 0
        /\ call.image_array[i] > CallTop => call.result.val[i] = MaxOut(call.bit_8)

\* C6: with bottom < top every output sample lies in [0, 2^bitdepth - 1], a
\* sample equal to bottom maps to 0 and a sample equal to top maps to
\* 2^bitdepth - 1.
C6_RangeAndEndpoints ==
    (IsNormalize /\ CallBottom < CallTop) =>
      /\ call.result.exc = "none"
      /\ Len(call.result.val) = Len(call.image_array)
      /\ \A i \in 1..Len(call.image_array) :
           /\ call.result.val[i] \in 0..MaxOut(call.bit_8)
           /\ call.image_array[i] = CallBottom => call.result.val[i] = 0
           /\ call.image_array[i] = CallTop => call.result.val[i] = MaxOut(call.bit_8)

\* the bounds of camera P at 512 rows, 8-bit mode: 53500 gives 0, 56500 gives 255
C6_Witness ==
    /\ IsNormalize
    /\ call.bit_8
    /\ call.bottom = Some(53500) /\ call.top = Some(56500)
    /\ call.image_array = <<53500, 56500>>
    /\ call.result.val = <<0, 255>>

\* C7: when the basename holds a token equal to P, C or S, the resolver returns
\* without error the table's row for the first such token and the row count.
C7_Table ==
    (IsResolve /\ HasCamera(call.filename)) =>
      /\ call.result.exc = "none"
      /\ <<call.result.bottom, call.result.top>>
           = Table(FirstCamera(call.filename), call.num_rows)

\* a path whose directory part holds a C token and whose basename is the token
\* P, at 512 rows
C7_Witness ==
    /\ IsResolve
    /\ call.filename = <<"C", "_", "/", "P">>
    /\ call.num_rows = 512
    /\ call.result.bottom = 53500 /\ call.result.top = 56500

\* C8: a call with top equal to bottom (given, or the min and max of a constant
\* grid) raises InvalidBoundsError.
C8_InvalidBounds ==
    (IsNormalize /\ CallBottom = CallTop) => call.result.exc = "InvalidBoundsError"

\* C9: from its read of the shared timestamp until its write of it, a
\* reporting worker holds the lock.
C9_ReadWriteUnderLock ==
    \A w \in Workers : wpc[w] \in {"acquire", "write"} => prev_time_lock = w

\* C10: on a pool of max(1, cpus - 1) workers the batch eventually prints its
\* summary, only after every submitted task has reported and the queue is
\* empty; a reported result never changes and no task returns to the queue.
C10_Terminates ==
    /\ <>Done
    /\ [](Done => (AllReported(results) /\ taskqueue = <<>>
                   /\ DOMAIN results = 0..(NumTasks - 1)))
    /\ [](mainpc \in {"starmap", "done"} =>
            Cardinality(Workers) = (IF cpus - 1 > 1 THEN cpus - 1 ELSE 1))
    /\ [][mainpc = "starmap" =>
            /\ Len(taskqueue') <= Len(taskqueue)
            /\ \A i \in DOMAIN results : results[i].set => results'[i] = results[i]]_vars

\* a finished batch of two tasks, both failed, on a pool of two workers
C10_Witness ==
    /\ Done
    /\ Cardinality(Workers) = 2
    /\ NumTasks = 2
    /\ \A i \in DOMAIN results : results[i].set /\ ~results[i].val

====
